---- MODULE Spec2Model ----
(***************************************************************************)
(* Reading-order inference of surya: batch_ordering and rank_elements of   *)
(* src/surya/ordering.py, as a state machine.                              *)
(*                                                                         *)
(* Python values are kept as they are in the source: sample indices, box   *)
(* slots, ranks and positions are 0-based integers.  Python lists are TLA+ *)
(* sequences, so the element the source writes xs[k] is xs[k + 1] here.    *)
(*                                                                         *)
(* Line 80 of ordering.py is written `for j, in range(logits.shape[0])`.   *)
(* The target list `j,` unpacks every integer of the range, which Python   *)
(* rejects with a TypeError on the first iteration.  The loop is modelled  *)
(* here as the iteration over j = 0 .. logits.shape[0] - 1 that its body   *)
(* (lines 81-91), line 83's logits[j] and line 94's all(done) are written  *)
(* for; every statement about decoding below is a statement about that     *)
(* loop, not about the TypeError.                                          *)
(***************************************************************************)
EXTENDS Integers, Sequences, FiniteSets, TLC

(***************************************************************************)
(* Bounds of the model.                                                    *)
(***************************************************************************)
MaxImages == 3
MaxBoxes == 3
\* images plus boxes of one call
MaxInputSize == 4
MaxBatch == 2
\* the longest argument of rank_elements called on its own, and its
\* largest entry
MaxRankLen == 3
MaxRankValue == 5
\* the most images and the most boxes of an image in the call run to its end
MaxFairImages == 2
MaxFairBoxes == 1
\* the longest list of the arguments whose lengths need not match
MaxShapes == 2
\* settings.ORDER_MAX_BOXES (line 67), scaled down
ORDER_MAX_BOXES == 3

(***************************************************************************)
(* The processor's and the model's configuration, read by the loop.        *)
(***************************************************************************)
\* processor.token_pad_id (line 86)
token_pad_id == 0
\* processor.box_size["height"] (line 91)
box_size_height == 1
\* logits.shape[-1]: the number of classes of one logits row (line 76)
num_classes == 4

Tokens == 0 .. (num_classes - 1)

LabelSet == {"Page-header", "Page-footer", "Text"}

\* -1e9 of line 82
MaskedOut == -1000000000

SeqsUpTo(S, n) == UNION {[1 .. k -> S] : k \in 0 .. n}

\* image.size of the k-th image (1-based k): (width, height)
ImageSize(k) == <<10 + k, 20 + k>>

\* the b-th box of the k-th image: four coordinates
Box(k, b) == <<b, k, b + 10, k + 10>>

VARIABLES
    images,             \* the sizes of the submitted images
    bboxes,             \* the submitted boxes, one list per image
    labels,             \* [given |-> BOOLEAN, rows |-> one label list per image]
    batch_size,         \* get_batch_size()
    pc,                 \* where batch_ordering is
    err,                \* the message of the exception raised, "" when none
    i,                  \* start of the current batch (line 46)
    j,                  \* sample of the batch being assembled (line 104)
    output_order,       \* line 45
    orig_sizes,         \* line 49
    token_count,        \* line 62
    past_key_values,    \* line 63: 0 is None, k the cache of the k-th call
    encoder_outputs,    \* line 64: 0 is None, k the state of the k-th call
    batch_predictions,  \* line 65
    done,               \* line 66
    batch_bboxes,       \* decoder_input_boxes of the next call
    batch_bbox_mask,    \* decoder_input_boxes_mask of the next call
    result,             \* what the caller receives: [returned, value]
    oracle,             \* the model's answers so far: <<sample, step>> -> token
    run,                \* which call of batch_ordering this is
    first,              \* the outcome of the first call, once a second is made
    encoder_runs,       \* how often the image encoder ran for the batch
    rank_arr,           \* the argument of a call of rank_elements alone
    rank_out            \* its value: [applied |-> BOOLEAN, value |-> ranks]

vars == <<images, bboxes, labels, batch_size, pc, err, i, j, output_order,
          orig_sizes, token_count, past_key_values, encoder_outputs,
          batch_predictions, done, batch_bboxes, batch_bbox_mask, result,
          oracle, run, first, encoder_runs, rank_arr, rank_out>>

\* the call of rank_elements on its own
ranking == <<rank_arr, rank_out>>

inputs == <<images, bboxes, labels>>

Min(a, b) == IF a < b THEN a ELSE b

\* the sum of the first n entries of the sequence of numbers s
RECURSIVE SumTo(_, _)
SumTo(s, n) == IF n = 0 THEN 0 ELSE s[n] + SumTo(s, n - 1)

\* len(batch_images) of the batch that starts at s (line 48)
BatchLen(s) == Min(batch_size, Len(images) - s)

(***************************************************************************)
(* rank_elements (lines 23-30).                                            *)
(***************************************************************************)
\* insert x into the sorted sequence s after every element whose key, the
\* f-th component, is <= x's
RECURSIVE InsertByKey(_, _, _)
InsertByKey(s, x, f) ==
    IF s = <<>> THEN <<x>>
    ELSE IF x[f] < Head(s)[f] THEN <<x>> \o s
    ELSE <<Head(s)>> \o InsertByKey(Tail(s), x, f)

RECURSIVE SortedFrom(_, _, _)
SortedFrom(acc, s, f) ==
    IF s = <<>> THEN acc
    ELSE SortedFrom(InsertByKey(acc, Head(s), f), Tail(s), f)

\* sorted(s, key=lambda x: x[f - 1]): ascending and stable
Sorted(s, f) == SortedFrom(<<>>, s, f)

\* enumerate(arr): pairs (0-based index, value)
Enumerate(arr) == [k \in 1 .. Len(arr) |-> <<k - 1, arr[k]>>]

\* the loop of lines 27-28 over the first n entries of the sorted pairs
RECURSIVE AssignRanks(_, _, _)
AssignRanks(rank, sorted, n) ==
    IF n = 0 THEN rank
    ELSE LET r == AssignRanks(rank, sorted, n - 1)
         IN  [r EXCEPT ![sorted[n][1] + 1] = n - 1]

\* rank_elements with the later of two equal values ranked first
rank_elements_unstable(arr) ==
    [k \in 1 .. Len(arr) |->
        Cardinality({q \in 1 .. Len(arr) :
                        arr[q] < arr[k] \/ (arr[q] = arr[k] /\ q > k)})]

\* rank_elements with equal values sharing the rank of the first of them
rank_elements_ties(arr) ==
    [k \in 1 .. Len(arr) |->
        Cardinality({q \in 1 .. Len(arr) : arr[q] < arr[k]})]

rank_elements(arr) ==
    LET enumerated_and_sorted == Sorted(Enumerate(arr), 2)
        rank == [k \in 1 .. Len(arr) |-> 0]
    IN  AssignRanks(rank, enumerated_and_sorted, Len(arr))

(***************************************************************************)
(* One sample's share of a decoding step (lines 81-91).  The model's row   *)
(* of logits is kept as the one-hot row of the class it scores highest:    *)
(* line 83 reads nothing of a row but its arg-max.                         *)
(***************************************************************************)
\* the logits row (classes 0 .. num_classes - 1) whose highest score is at t
OneHot(t) == [c \in Tokens |-> IF c = t THEN 1 ELSE 0]

\* Python's index k into a row of num_classes entries: negative k counts
\* from the end.  box_size_height < num_classes keeps every index in range.
Wrap(k) == IF k < 0 THEN k + num_classes ELSE k

\* lines 81-82: new_logits = logits[j].clone(); new_logits[predictions] = -1e9
MaskPredicted(row, predictions) ==
    [c \in Tokens |->
        IF \E k \in 1 .. Len(predictions) : Wrap(predictions[k]) = c
        THEN MaskedOut ELSE row[c]]

\* torch.argmax: the first index of the largest entry
ArgMax(row) ==
    CHOOSE c \in Tokens :
        /\ \A d \in Tokens : row[d] <= row[c]
        /\ \A d \in Tokens : row[d] = row[c] => c <= d

\* line 83: pred = int(torch.argmax(logits[j], dim=-1).item()); the masked
\* copy new_logits of lines 81-82 is built and not read
SelectPred(row, predictions) ==
    LET new_logits == MaskPredicted(row, predictions)
    IN  ArgMax(row)

\* SampleStep with the mask entry 1 whatever was selected
SampleStepUnmasked(row, predictions, was_done) ==
    LET pred == SelectPred(row, predictions)
    IN  [last_token  |-> <<pred, pred, pred, pred>>,
         mask        |-> <<1>>,
         done        |-> IF pred = token_pad_id THEN TRUE ELSE was_done,
         predictions |-> IF pred = token_pad_id THEN predictions
                         ELSE Append(predictions, pred - box_size_height)]

\* lines 85-91 for one sample: its new predictions, done flag, next
\* decoder box and next mask entry
SampleStep(row, predictions, was_done) ==
    LET pred == SelectPred(row, predictions)
    IN  [last_token  |-> <<pred, pred, pred, pred>>,
         mask        |-> IF pred = token_pad_id THEN <<0>> ELSE <<1>>,
         done        |-> IF pred = token_pad_id THEN TRUE ELSE was_done,
         predictions |-> IF pred = token_pad_id THEN predictions
                         ELSE Append(predictions, pred - box_size_height)]

(***************************************************************************)
(* Forcing headers first and footers last (lines 113-127).                 *)
(***************************************************************************)
\* [row for row in rows if Keep(row label)], for the three groups of 117-119
RECURSIVE RowsLabeled(_, _)
RowsLabeled(rows, group) ==
    IF rows = <<>> THEN <<>>
    ELSE LET label == Head(rows)[3]
             keep == CASE group = "header" -> label = "Page-header"
                       [] group = "footer" -> label = "Page-footer"
                       [] OTHER -> label \notin {"Page-header", "Page-footer"}
         IN  (IF keep THEN <<Head(rows)>> ELSE <<>>)
                 \o RowsLabeled(Tail(rows), group)

\* ReRank counting from 1
ReRankFromOne(rows) ==
    [k \in 1 .. Len(rows) |-> <<rows[k][1], rows[k][2], rows[k][3], k>>]

\* lines 122-123: row[3] = rank, for rank, row in enumerate(sorted_boxes)
ReRank(rows) ==
    [k \in 1 .. Len(rows) |-> <<rows[k][1], rows[k][2], rows[k][3], k - 1>>]

\* ReorderRows without the sort by rank of line 115
ReorderRowsUnsorted(row_bboxes, row_label, ranks) ==
    LET n == Min(Len(row_bboxes), Min(Len(row_label), Len(ranks)))
        combined == [k \in 1 .. n |->
                        <<k - 1, row_bboxes[k], row_label[k], ranks[k]>>]
        sorted_boxes == RowsLabeled(combined, "header")
                            \o RowsLabeled(combined, "body")
                            \o RowsLabeled(combined, "footer")
    IN  Sorted(ReRank(sorted_boxes), 1)

\* ReorderRows without the sort back to submitted order of line 125
ReorderRowsByRank(row_bboxes, row_label, ranks) ==
    LET n == Min(Len(row_bboxes), Min(Len(row_label), Len(ranks)))
        combined == Sorted([k \in 1 .. n |->
                        <<k - 1, row_bboxes[k], row_label[k], ranks[k]>>], 4)
        sorted_boxes == RowsLabeled(combined, "header")
                            \o RowsLabeled(combined, "body")
                            \o RowsLabeled(combined, "footer")
    IN  ReRank(sorted_boxes)

\* lines 113-127: the rows (index, bbox, label, rank) in submitted order
\* with their new ranks
ReorderRows(row_bboxes, row_label, ranks) ==
    LET n == Min(Len(row_bboxes), Min(Len(row_label), Len(ranks)))
        combined == Sorted([k \in 1 .. n |->
                        <<k - 1, row_bboxes[k], row_label[k], ranks[k]>>], 4)
        sorted_boxes == RowsLabeled(combined, "header")
                            \o RowsLabeled(combined, "body")
                            \o RowsLabeled(combined, "footer")
    IN  Sorted(ReRank(sorted_boxes), 1)

\* OrderResultOf with every box at the position of its place in the list
OrderResultOfByIndex(row_pred, row_bboxes, has_labels, row_label, orig_size) ==
    [bboxes     |-> [k \in 1 .. Len(row_bboxes) |->
                        [bbox |-> row_bboxes[k], position |-> k - 1]],
     image_bbox |-> <<0, 0, orig_size[1], orig_size[2]>>]

\* lines 109-140 for one sample whose prediction count matched: its
\* OrderResult
OrderResultOf(row_pred, row_bboxes, has_labels, row_label, orig_size) ==
    LET ranks0 == rank_elements(row_pred)
        rows == ReorderRows(row_bboxes, row_label, ranks0)
        out_bboxes == IF has_labels
                      THEN [k \in 1 .. Len(rows) |-> rows[k][2]]
                      ELSE row_bboxes
        ranks == IF has_labels
                 THEN [k \in 1 .. Len(rows) |-> rows[k][4]]
                 ELSE ranks0
        m == Min(Len(out_bboxes), Len(ranks))
    IN  [bboxes     |-> [k \in 1 .. m |->
                            [bbox |-> out_bboxes[k], position |-> ranks[k]]],
         image_bbox |-> <<0, 0, orig_size[1], orig_size[2]>>]

(***************************************************************************)
(* The call batch_ordering(images, bboxes, model, processor, labels).      *)
(***************************************************************************)
NoResult == [returned |-> FALSE, value |-> <<>>]

NoOutcome == [made |-> FALSE, failed |-> FALSE, value |-> <<>>, batch_size |-> 0]

NotRanked == [applied |-> FALSE, value |-> <<>>]

\* the state of a call that has not run a statement yet
Entered ==
    /\ pc = "start"
    /\ err = ""
    /\ i = 0
    /\ j = 0
    /\ output_order = <<>>
    /\ orig_sizes = <<>>
    /\ token_count = 0
    /\ past_key_values = 0
    /\ encoder_outputs = 0
    /\ batch_predictions = <<>>
    /\ done = <<>>
    /\ batch_bboxes = <<>>
    /\ batch_bbox_mask = <<>>
    /\ result = NoResult
    /\ encoder_runs = 0

\* n images
ImagesFor(n) == [k \in 1 .. n |-> ImageSize(k)]

\* one list of boxes per entry of counts, of that many boxes
BoxesFor(counts) ==
    [k \in 1 .. Len(counts) |-> [b \in 1 .. counts[k] |-> Box(k, b)]]

\* labels=None
Unlabelled == [given |-> FALSE, rows |-> <<>>]

\* the arguments of the call: lists of matching lengths up to the bounds;
\* short lists of any lengths, matching or not; and one sample with more
\* boxes than the step cap, alone or beside a sample without boxes
InitInputs ==
    \/ \E n \in 0 .. MaxImages :
         \E counts \in [1 .. n -> 0 .. MaxBoxes] :
           /\ n + SumTo(counts, n) <= MaxInputSize
           /\ images = ImagesFor(n)
           /\ bboxes = BoxesFor(counts)
           /\ \/ labels = Unlabelled
              \/ \E rows \in [1 .. n -> SeqsUpTo(LabelSet, MaxBoxes)] :
                   /\ \A k \in 1 .. n : Len(rows[k]) = counts[k]
                   /\ labels = [given |-> TRUE, rows |-> rows]
    \/ \E n \in 0 .. MaxShapes :
         \E counts \in SeqsUpTo(0 .. 1, MaxShapes) :
           /\ images = ImagesFor(n)
           /\ bboxes = BoxesFor(counts)
           /\ \/ labels = Unlabelled
              \/ \E rows \in SeqsUpTo(SeqsUpTo(LabelSet, 1), MaxShapes) :
                   labels = [given |-> TRUE, rows |-> rows]
    \/ \E n \in 1 .. 2 :
         \E big \in 1 .. n :
           /\ images = ImagesFor(n)
           /\ bboxes = BoxesFor([k \in 1 .. n |->
                            IF k = big THEN ORDER_MAX_BOXES + 1 ELSE 0])
           /\ labels = Unlabelled

Init ==
    /\ InitInputs
    /\ batch_size \in 1 .. MaxBatch
    /\ Entered
    /\ oracle = <<>>
    /\ run = 1
    /\ first = NoOutcome
    /\ rank_arr = <<>>
    /\ rank_out = NotRanked

\* OrigSizes taken from the head of the image list whatever the batch
OrigSizesFromStart(s, n) == [k \in 1 .. n |-> images[k]]

\* line 49: orig_sizes of the batch of n images that starts at s
OrigSizes(s, n) == [k \in 1 .. n |-> images[s + k]]

\* CountMatches accepting more predictions than boxes
CountAtLeast(row_pred, row_bboxes) == Len(row_pred) >= Len(row_bboxes)

\* line 106: the condition asserted
CountMatches(row_pred, row_bboxes) == Len(row_pred) = Len(row_bboxes)

\* a failed assert (lines 35, 39, 41, 106): the exception leaves
\* batch_ordering, whose caller receives no value
Fail(message) ==
    /\ pc' = "failed"
    /\ err' = message
    /\ result' = NoResult

\* ShapesOk without the comparison of each label list with its box list
ShapesOkWithoutRows ==
    /\ Len(images) = Len(bboxes)
    /\ labels.given => Len(labels.rows) = Len(images)

\* the conditions asserted by lines 35-41
ShapesOk ==
    /\ Len(images) = Len(bboxes)
    /\ labels.given =>
          /\ Len(labels.rows) = Len(images)
          /\ \A k \in 1 .. Len(images) : Len(labels.rows[k]) = Len(bboxes[k])

\* lines 34-45: the assertions on the arguments, then output_order = []
CheckInputs ==
    /\ pc = "start"
    /\ IF ~ShapesOk
       THEN Fail("AssertionError")
       ELSE pc' = "for" /\ UNCHANGED <<err, result>>
    /\ UNCHANGED <<ranking, inputs, batch_size, i, j, output_order, orig_sizes,
                   token_count, past_key_values, encoder_outputs,
                   batch_predictions, done, batch_bboxes, batch_bbox_mask,
                   oracle, run, first, encoder_runs>>

\* lines 46-66: the next batch images[i:i+batch_size] is preprocessed and
\* its decoding state created.  The processor is outside this file: its
\* input_boxes are kept as the boxes handed to it and its input_boxes_mask
\* as one 1 per box.
BeginBatch ==
    /\ pc = "for"
    /\ i < Len(images)
    /\ LET n == BatchLen(i)
       IN  /\ orig_sizes' = OrigSizes(i, n)
           /\ batch_bboxes' = [k \in 1 .. n |-> bboxes[i + k]]
           /\ batch_bbox_mask' = [k \in 1 .. n |->
                                    [b \in 1 .. Len(bboxes[i + k]) |-> 1]]
           /\ batch_predictions' = [k \in 1 .. n |-> <<>>]
           /\ done' = [k \in 1 .. n |-> FALSE]
    /\ token_count' = 0
    /\ past_key_values' = 0
    /\ encoder_outputs' = 0
    /\ encoder_runs' = 0
    /\ pc' = "decode"
    /\ UNCHANGED <<ranking, inputs, batch_size, err, i, j, output_order, result,
                   oracle, run, first>>

\* line 142: the range of line 46 is exhausted
Return ==
    /\ pc = "for"
    /\ i >= Len(images)
    /\ pc' = "returned"
    /\ result' = [returned |-> TRUE, value |-> output_order]
    /\ UNCHANGED <<ranking, inputs, batch_size, err, i, j, output_order, orig_sizes,
                   token_count, past_key_values, encoder_outputs,
                   batch_predictions, done, batch_bboxes, batch_bbox_mask,
                   oracle, run, first, encoder_runs>>

\* the key under which the model's answer for the k-th sample (1-based) of
\* the current batch at the current step is remembered
OracleKey(k) == <<i + k - 1, token_count>>

\* WithinCap letting one more step through
WithinCapInclusive(count) == count <= ORDER_MAX_BOXES

\* line 67: the condition of the while loop
WithinCap(count) == count < ORDER_MAX_BOXES

\* AllDone that never holds: the loop runs to the step cap
AllDoneNever(flags) == FALSE

\* line 94: all(done)
AllDone(flags) == \A k \in 1 .. Len(flags) : flags[k]

\* Threaded dropping what the call returned: None again
ThreadedNone(call) == 0

\* lines 97-98: the cache and the encoder state that the call-th call of
\* the batch returned, as the next call receives them
Threaded(call) == call

\* forward, lines 90-99 of encoderdecoder.py: the image encoder runs when
\* no encoder_outputs are passed, and only then.  1 when it runs, else 0.
EncoderRuns(passed) == IF passed = 0 THEN 1 ELSE 0

\* lines 67-102, one turn of the while loop: the model is called, every
\* sample of the batch takes its share of the step, and the loop either
\* breaks (all done) or the next call's inputs are built
DecodeStep ==
    /\ pc = "decode"
    /\ WithinCap(token_count)
    /\ \E logits \in [1 .. Len(done) -> Tokens] :
         /\ \A k \in 1 .. Len(done) :
               OracleKey(k) \in DOMAIN oracle => logits[k] = oracle[OracleKey(k)]
         /\ LET step == [k \in 1 .. Len(done) |->
                            SampleStep(OneHot(logits[k]), batch_predictions[k],
                                       done[k])]
                now_done == [k \in 1 .. Len(done) |-> step[k].done]
            IN  /\ batch_predictions' =
                       [k \in 1 .. Len(done) |-> step[k].predictions]
                /\ done' = now_done
                /\ IF AllDone(now_done)
                   THEN /\ pc' = "assemble"
                        /\ UNCHANGED <<past_key_values, encoder_outputs,
                                       batch_bboxes, batch_bbox_mask,
                                       token_count>>
                   ELSE /\ pc' = "decode"
                        /\ past_key_values' = Threaded(token_count + 1)
                        /\ encoder_outputs' = Threaded(token_count + 1)
                        /\ batch_bboxes' =
                               [k \in 1 .. Len(done) |-> step[k].last_token]
                        /\ batch_bbox_mask' =
                               [k \in 1 .. Len(done) |-> step[k].mask]
                        /\ token_count' = token_count + 1
         /\ oracle' = [key \in DOMAIN oracle \cup
                                   {OracleKey(k) : k \in 1 .. Len(done)} |->
                          IF key \in DOMAIN oracle THEN oracle[key]
                          ELSE logits[key[1] - i + 1]]
    /\ encoder_runs' = encoder_runs + EncoderRuns(encoder_outputs)
    /\ j' = 0
    /\ UNCHANGED <<ranking, inputs, batch_size, err, i, output_order, orig_sizes,
                   result, run, first>>

\* line 67: the step cap ends the loop
ExitLoop ==
    /\ pc = "decode"
    /\ ~WithinCap(token_count)
    /\ pc' = "assemble"
    /\ j' = 0
    /\ UNCHANGED <<ranking, inputs, batch_size, err, i, output_order, orig_sizes,
                   token_count, past_key_values, encoder_outputs,
                   batch_predictions, done, batch_bboxes, batch_bbox_mask,
                   result, oracle, run, first, encoder_runs>>

\* lines 104-141 for the sample j of the batch: the count of its
\* predictions is asserted, its ranks computed and its OrderResult appended
AssembleSample ==
    /\ pc = "assemble"
    /\ j < Len(batch_predictions)
    /\ LET row_pred == batch_predictions[j + 1]
           row_bboxes == bboxes[i + j + 1]
       IN  IF ~CountMatches(row_pred, row_bboxes)
           THEN /\ Fail("Mismatch between logits and bboxes.")
                /\ UNCHANGED <<j, output_order>>
           ELSE /\ output_order' = Append(output_order,
                       OrderResultOf(row_pred, row_bboxes, labels.given,
                                     IF labels.given THEN labels.rows[i + j + 1]
                                     ELSE <<>>,
                                     orig_sizes[j + 1]))
                /\ j' = j + 1
                /\ UNCHANGED <<pc, err, result>>
    /\ UNCHANGED <<ranking, inputs, batch_size, i, orig_sizes, token_count,
                   past_key_values, encoder_outputs, batch_predictions, done,
                   batch_bboxes, batch_bbox_mask, oracle, run, first,
                   encoder_runs>>

\* NextStart moving on by one sample
NextStartByOne(s) == s + 1

\* line 46: the value of range(0, len(images), batch_size) after s
NextStart(s) == s + batch_size

\* line 46: the batch is assembled, i takes the next value of the range
EndBatch ==
    /\ pc = "assemble"
    /\ j = Len(batch_predictions)
    /\ i' = NextStart(i)
    /\ pc' = "for"
    /\ UNCHANGED <<ranking, inputs, batch_size, err, j, output_order, orig_sizes,
                   token_count, past_key_values, encoder_outputs,
                   batch_predictions, done, batch_bboxes, batch_bbox_mask,
                   result, oracle, run, first, encoder_runs>>

\* batch_ordering is called a second time on the same images, boxes and
\* labels, with the same model (it answers as before wherever it is asked
\* the same sample at the same step) and another batch size
CallAgain ==
    /\ pc \in {"returned", "failed"}
    /\ run = 1
    /\ run' = 2
    /\ first' = [made |-> TRUE, failed |-> pc = "failed",
                 value |-> result.value, batch_size |-> batch_size]
    /\ \E b \in 1 .. MaxBatch : b # batch_size /\ batch_size' = b
    /\ pc' = "start"
    /\ err' = ""
    /\ i' = 0
    /\ j' = 0
    /\ output_order' = <<>>
    /\ orig_sizes' = <<>>
    /\ token_count' = 0
    /\ past_key_values' = 0
    /\ encoder_outputs' = 0
    /\ batch_predictions' = <<>>
    /\ done' = <<>>
    /\ batch_bboxes' = <<>>
    /\ batch_bbox_mask' = <<>>
    /\ result' = NoResult
    /\ encoder_runs' = 0
    /\ UNCHANGED <<ranking, inputs, oracle>>

Next ==
    \/ CheckInputs
    \/ BeginBatch
    \/ DecodeStep
    \/ ExitLoop
    \/ AssembleSample
    \/ EndBatch
    \/ Return

Spec == Init /\ [][Next]_vars

NextAgain ==
    \/ Next
    \/ CallAgain

SpecAgain == Init /\ [][NextAgain]_vars

(***************************************************************************)
(* Vocabulary of the properties.                                           *)
(***************************************************************************)
\* the position values of an OrderResult, in the order of its boxes
Positions(res) == [k \in 1 .. Len(res.bboxes) |-> res.bboxes[k].position]

\* the boxes of an OrderResult, in their order
BoxesOf(res) == [k \in 1 .. Len(res.bboxes) |-> res.bboxes[k].bbox]

Range(s) == {s[k] : k \in 1 .. Len(s)}

\* s holds every number of 0 .. n - 1 exactly once
IsPermutationOfRange(s, n) == Len(s) = n /\ Range(s) = 0 .. (n - 1)

NoRepeat(s) == \A a, b \in 1 .. Len(s) : a # b => s[a] # s[b]

\* the samples (1-based within the batch) of the current batch that have
\* their OrderResult: while the batch is assembled its predictions are
\* still there, and the result of its k-th sample is output_order[i + k]
Assembled == IF pc = "assemble" THEN 1 .. j ELSE {}

(***************************************************************************)
(* C1: every OrderResult produced carries each position 0 .. N - 1 exactly *)
(* once, N being the box count of its sample.                              *)
(***************************************************************************)
C1_PositionsArePermutation ==
    \A r \in 1 .. Len(output_order) :
        IsPermutationOfRange(Positions(output_order[r]), Len(bboxes[r]))

\* a labelled sample of three boxes whose predictions repeat a slot has its
\* OrderResult
C1_Witness ==
    /\ labels.given
    /\ \E k \in Assembled :
          /\ Len(bboxes[i + k]) = 3
          /\ ~NoRepeat(batch_predictions[k])

Group(label) ==
    IF label = "Page-header" THEN 0 ELSE IF label = "Page-footer" THEN 2 ELSE 1

C4_HeaderFooterLaw ==
    labels.given =>
        \A k \in Assembled :
            LET raw == rank_elements(batch_predictions[k])
                pos == Positions(output_order[i + k])
                lab == labels.rows[i + k]
            IN  \A a, b \in 1 .. Len(lab) :
                    /\ Group(lab[a]) < Group(lab[b]) => pos[a] < pos[b]
                    /\ Group(lab[a]) = Group(lab[b]) =>
                           (pos[a] < pos[b] <=> raw[a] < raw[b])

\* a sample with a body box, then a header, then a footer, whose raw ranks
\* put the footer first and the header last
C4_Witness ==
    /\ labels.given
    /\ \E k \in Assembled :
          /\ labels.rows[i + k] = <<"Text", "Page-footer", "Page-header">>
          /\ rank_elements(batch_predictions[k]) = <<1, 0, 2>>

(***************************************************************************)
(* C5: without labels the position of the k-th box is its raw rank, and    *)
(* the boxes are those submitted, in the submitted order.                  *)
(***************************************************************************)
C5_NoLabelPassthrough ==
    ~labels.given =>
        \A k \in Assembled :
            /\ Positions(output_order[i + k])
                   = rank_elements(batch_predictions[k])
            /\ BoxesOf(output_order[i + k]) = bboxes[i + k]

\* an unlabelled sample of three boxes, predicted in the order 2, 0, 1, has
\* its OrderResult
C5_Witness ==
    /\ ~labels.given
    /\ \E k \in Assembled :
          /\ batch_predictions[k] = <<2, 0, 1>>
          /\ Positions(output_order[i + k]) = <<2, 0, 1>>

(***************************************************************************)
(* C6: a sample whose prediction count differs from its box count gets no  *)
(* OrderResult: assembling it raises the mismatch failure, nothing is      *)
(* appended for it and nothing is returned; a sample that has its          *)
(* OrderResult has as many predictions, and as many OrderBoxes, as boxes.  *)
(***************************************************************************)
C6_AssembledCountsMatch ==
    /\ \A k \in Assembled :
          /\ Len(batch_predictions[k]) = Len(bboxes[i + k])
          /\ Len(output_order[i + k].bboxes) = Len(bboxes[i + k])
    /\ pc = "failed" => ~result.returned

C6_MismatchAborts ==
    (/\ pc = "assemble"
     /\ j < Len(batch_predictions)
     /\ Len(batch_predictions[j + 1]) # Len(bboxes[i + j + 1]))
        => /\ pc' = "failed"
           /\ err' = "Mismatch between logits and bboxes."
           /\ output_order' = output_order
           /\ result' = result

C6_PostLoopValidation == []C6_AssembledCountsMatch /\ [][C6_MismatchAborts]_vars

\* the loop ended by the step cap, the first sample of the batch got its
\* OrderResult and the second, with more predictions than boxes, failed
C6_Witness ==
    /\ pc = "failed"
    /\ err = "Mismatch between logits and bboxes."
    /\ token_count = ORDER_MAX_BOXES
    /\ j = 1
    /\ Len(output_order) = i + 1
    /\ Len(batch_predictions[2]) > Len(bboxes[i + 2])

(***************************************************************************)
(* C7: when the model emits the terminator for a sample that holds fewer   *)
(* than N predictions, the call does not return: no OrderResult of that    *)
(* sample reaches the caller.                                              *)
(***************************************************************************)
\* the predictions the sample s (0-based) holds when step t begins
HeldAt(s, t) ==
    Cardinality({u \in 0 .. (t - 1) : oracle[<<s, u>>] # token_pad_id})

EarlyTerminated(s) ==
    \E t \in 0 .. (ORDER_MAX_BOXES - 1) :
        /\ <<s, t>> \in DOMAIN oracle
        /\ oracle[<<s, t>>] = token_pad_id
        /\ HeldAt(s, t) < Len(bboxes[s + 1])

C8_DoneKeepsPredictions ==
    pc = "decode" =>
        \A k \in 1 .. Len(done) :
            done[k] => batch_predictions'[k] = batch_predictions[k]

C10_OneResultPerImage ==
    pc = "returned" =>
        /\ result.returned
        /\ Len(result.value) = Len(images)
        /\ \A r \in 1 .. Len(images) :
              /\ BoxesOf(result.value[r]) = bboxes[r]
              /\ result.value[r].image_bbox
                     = <<0, 0, images[r][1], images[r][2]>>

\* three images in batches of two (a full batch, then a partial one), one
\* of them with a box
C10_Witness ==
    /\ pc = "returned"
    /\ Len(images) = 3
    /\ batch_size = 2
    /\ \E r \in 1 .. 3 : Len(result.value[r].bboxes) = 1

(***************************************************************************)
(* rank_elements called on its own (lines 23-30), on every sequence of     *)
(* numbers within the bounds, duplicates included.                         *)
(***************************************************************************)
InitRank ==
    /\ rank_arr \in SeqsUpTo(0 .. MaxRankValue, MaxRankLen)
    /\ rank_out = NotRanked
    /\ images = ImagesFor(0)
    /\ bboxes = BoxesFor(<<>>)
    /\ labels = Unlabelled
    /\ batch_size = 1
    /\ Entered
    /\ oracle = <<>>
    /\ run = 1
    /\ first = NoOutcome

\* lines 23-30: the call returns
RankStep ==
    /\ ~rank_out.applied
    /\ rank_out' = [applied |-> TRUE, value |-> rank_elements(rank_arr)]
    /\ UNCHANGED <<rank_arr, inputs, batch_size, pc, err, i, j, output_order,
                   orig_sizes, token_count, past_key_values, encoder_outputs,
                   batch_predictions, done, batch_bboxes, batch_bbox_mask,
                   result, oracle, run, first, encoder_runs>>

NextRank == RankStep

SpecRank == InitRank /\ [][NextRank]_vars

(***************************************************************************)
(* C11: rank_elements returns, for every sequence of length N (duplicates  *)
(* allowed), a permutation of 0 .. N - 1 in which position a has a lower   *)
(* rank than position b whenever arr[a] < arr[b], or arr[a] = arr[b] and   *)
(* a < b; rank_elements([3,1,2]) is [2,0,1] and rank_elements([5,5,5]) is  *)
(* [0,1,2].                                                                *)
(***************************************************************************)
C11_RankElementsStable ==
    rank_out.applied =>
        LET r == rank_out.value
            N == Len(rank_arr)
        IN  /\ IsPermutationOfRange(r, N)
            /\ \A a, b \in 1 .. N :
                   (rank_arr[a] < rank_arr[b]
                       \/ (rank_arr[a] = rank_arr[b] /\ a < b))
                   => r[a] < r[b]
            /\ rank_arr = <<3, 1, 2>> => r = <<2, 0, 1>>
            /\ rank_arr = <<5, 5, 5>> => r = <<0, 1, 2>>

\* three equal values ranked in their original order
C11_Witness ==
    /\ rank_out.applied
    /\ rank_arr = <<5, 5, 5>>
    /\ rank_out.value = <<0, 1, 2>>

(***************************************************************************)
(* The call run to its end.  The program is sequential: a statement that   *)
(* can run does run.  The argument lists are kept short, the loop of lines *)
(* 67-102 being driven by the model's answers and not by their lengths.    *)
(***************************************************************************)
InitFair ==
    /\ \E n \in 1 .. MaxFairImages :
         \E counts \in [1 .. n -> 0 .. MaxFairBoxes] :
           /\ images = ImagesFor(n)
           /\ bboxes = BoxesFor(counts)
           /\ labels = Unlabelled
    /\ batch_size \in 1 .. MaxBatch
    /\ Entered
    /\ oracle = <<>>
    /\ run = 1
    /\ first = NoOutcome
    /\ rank_arr = <<>>
    /\ rank_out = NotRanked

SpecFair == InitFair /\ [][Next]_vars /\ WF_vars(Next)

\* every sample of the current batch is DONE
EveryDone == \A k \in 1 .. Len(done) : done[k]

\* how often the model has been called for the current batch: each call
\* of a batch is made at another token_count
Invocations ==
    Cardinality({t \in 0 .. ORDER_MAX_BOXES + 1 : <<i, t>> \in DOMAIN oracle})

(***************************************************************************)
(* C12: the decoding loop of every batch terminates.  It stops right after *)
(* the first step at which all samples of the batch are DONE, with no      *)
(* further call of the model for that batch; otherwise it stops once the   *)
(* model has been called ORDER_MAX_BOXES times, and the samples still      *)
(* ACTIVE keep the predictions accumulated so far.                         *)
(***************************************************************************)
C12_LoopOpenOnlyWhileNeeded ==
    /\ pc = "decode" => ~EveryDone /\ Invocations = token_count
    /\ pc = "assemble" =>
          /\ Invocations >= 1
          /\ Invocations <= ORDER_MAX_BOXES
          /\ EveryDone \/ Invocations = ORDER_MAX_BOXES

C12_LeavesLoop ==
    pc = "decode" /\ pc' = "assemble" =>
        \/ EveryDone'
        \/ /\ token_count = ORDER_MAX_BOXES
           /\ batch_predictions' = batch_predictions
           /\ oracle' = oracle

IllShaped ==
    \/ Len(images) # Len(bboxes)
    \/ /\ labels.given
       /\ \/ Len(labels.rows) # Len(images)
          \/ \E k \in 1 .. Len(images) : Len(labels.rows[k]) # Len(bboxes[k])

(***************************************************************************)
(* C13: if len(images) # len(bboxes), or labels are given and              *)
(* len(labels) # len(images) or some len(labels[k]) # len(bboxes[k]),      *)
(* batch_ordering fails before the preprocessor or the model is called for *)
(* any batch, and no OrderResult is produced.                              *)
(***************************************************************************)
C13_NothingStarted ==
    IllShaped =>
        /\ pc \in {"start", "failed"}
        /\ pc = "failed" => err = "AssertionError"
        /\ orig_sizes = <<>>
        /\ batch_bboxes = <<>>
        /\ batch_bbox_mask = <<>>
        /\ oracle = <<>>
        /\ encoder_runs = 0
        /\ output_order = <<>>
        /\ result = NoResult

C13_FailsAtOnce == IllShaped /\ pc = "start" => pc' = "failed"

C13_ShapePrecondition == []C13_NothingStarted /\ [][C13_FailsAtOnce]_vars

\* a call refused for one label list that is not as long as its box list
C13_Witness ==
    /\ pc = "failed"
    /\ err = "AssertionError"
    /\ Len(images) = 2
    /\ Len(bboxes) = 2
    /\ labels.given
    /\ Len(labels.rows) = 2
    /\ Len(labels.rows[1]) = Len(bboxes[1])
    /\ Len(labels.rows[2]) # Len(bboxes[2])

BatchStartOf(s) == (s \div batch_size) * batch_size

(***************************************************************************)
(* C15: the batches are contiguous, non-empty, non-overlapping slices of   *)
(* the sample list in its order, each of batch_size samples except         *)
(* possibly the last, and together the whole list; they are processed one  *)
(* after another: the model is not called for a batch before every sample  *)
(* of the batch before it has its result assembled.                        *)
(***************************************************************************)
C15_BatchSchedule ==
    /\ pc \in {"for", "decode", "assemble", "returned"} =>
          /\ i % batch_size = 0
          /\ i < Len(images) + batch_size
    /\ pc \in {"decode", "assemble"} =>
          /\ i < Len(images)
          /\ Len(done) >= 1
          /\ Len(done) = IF Len(images) - i < batch_size
                         THEN Len(images) - i ELSE batch_size
          /\ Len(orig_sizes) = Len(done)
          /\ \A k \in 1 .. Len(done) : orig_sizes[k] = images[i + k]
          /\ Len(output_order) = IF pc = "decode" THEN i ELSE i + j
    /\ pc = "for" =>
          Len(output_order) = IF i < Len(images) THEN i ELSE Len(images)
    /\ pc = "returned" => i >= Len(images)
    /\ \A key \in DOMAIN oracle :
          /\ Len(output_order) >= BatchStartOf(key[1])
          /\ pc # "failed" => i >= BatchStartOf(key[1])

\* the model has been called for the third image, alone in the second
\* batch, the two images of the first batch having their results
C15_Witness ==
    /\ Len(images) = 3
    /\ batch_size = 2
    /\ pc = "decode"
    /\ i = 2
    /\ Len(done) = 1
    /\ Len(output_order) = 2
    /\ <<2, 0>> \in DOMAIN oracle

\* the token that the k-th sample of the current batch selected at step t
SelectedAt(k, t) == oracle[<<i + k - 1, t>>]

(***************************************************************************)
(* C16: for every call of the model of a batch after the first, the box    *)
(* input of each sample is four copies of the token the sample selected at *)
(* the step just before, and its mask entry is 0 exactly when that token   *)
(* was token_pad_id and 1 otherwise; the first call is given the box       *)
(* tensor and the mask of the preprocessor.                                *)
(***************************************************************************)
C16_NextStepInputs ==
    pc = "decode" =>
        /\ Len(batch_bboxes) = Len(done)
        /\ Len(batch_bbox_mask) = Len(done)
        /\ \A k \in 1 .. Len(done) :
              IF token_count = 0
              THEN /\ batch_bboxes[k] = bboxes[i + k]
                   /\ batch_bbox_mask[k] =
                          [b \in 1 .. Len(bboxes[i + k]) |-> 1]
              ELSE LET tok == SelectedAt(k, token_count - 1)
                   IN  /\ batch_bboxes[k] = <<tok, tok, tok, tok>>
                       /\ batch_bbox_mask[k] =
                              <<IF tok = token_pad_id THEN 0 ELSE 1>>

\* the inputs of a third call: the first sample selected token_pad_id at
\* the second step, the second sample a box
C16_Witness ==
    /\ pc = "decode"
    /\ token_count = 2
    /\ Len(done) = 2
    /\ SelectedAt(1, 1) = token_pad_id
    /\ SelectedAt(2, 1) # token_pad_id
    /\ batch_bbox_mask = <<<<0>>, <<1>>>>
    /\ batch_bboxes[2] = <<SelectedAt(2, 1), SelectedAt(2, 1),
                           SelectedAt(2, 1), SelectedAt(2, 1)>>

(***************************************************************************)
(* C17: within one batch the image encoder runs only for the first call of *)
(* the model, the one that is passed no encoder state; every later call of *)
(* the batch receives the cache and the encoder state returned by the call *)
(* just before it and does not compute the image encoding again; each new  *)
(* batch starts with no cache and no encoder state.                        *)
(***************************************************************************)
C17_IncrementalDecoding ==
    /\ pc = "decode" =>
          IF token_count = 0
          THEN /\ past_key_values = 0
               /\ encoder_outputs = 0
               /\ encoder_runs = 0
          ELSE /\ past_key_values = token_count
               /\ encoder_outputs = token_count
               /\ encoder_runs = 1
    /\ pc = "assemble" => encoder_runs = 1

\* the second batch about to make its third call, after a first batch of
\* two calls
C17_Witness ==
    /\ pc = "decode"
    /\ i > 0
    /\ <<0, 1>> \in DOMAIN oracle
    /\ token_count = 2
    /\ past_key_values = 2
    /\ encoder_outputs = 2
    /\ encoder_runs = 1

(***************************************************************************)
(* C18: for every sample with an OrderResult, with labels or without, the  *)
(* k-th OrderBox carries the k-th submitted box, with its coordinates and  *)
(* in the order of the submitted list: the reordering changes the position *)
(* values only, never the sequence of boxes, and never the bboxes and      *)
(* labels lists of the caller.                                             *)
(***************************************************************************)
C18_BoxesAsSubmitted ==
    \A r \in 1 .. Len(output_order) : BoxesOf(output_order[r]) = bboxes[r]

C18_ArgumentsUntouched == bboxes' = bboxes /\ labels' = labels

C18_BoxFrame == []C18_BoxesAsSubmitted /\ [][C18_ArgumentsUntouched]_vars

\* a labelled sample of two boxes read in the reverse of their order
C18_Witness ==
    /\ labels.given
    /\ Len(output_order) >= 1
    /\ Positions(output_order[1]) = <<1, 0>>
    /\ BoxesOf(output_order[1]) = <<Box(1, 1), Box(1, 2)>>

\* sample s (0-based) has more boxes than the loop has steps
Oversized(s) == Len(bboxes[s + 1]) > ORDER_MAX_BOXES

(***************************************************************************)
(* C19: in every state of the decoding loop each sample's predictions grow *)
(* by at most one entry per call of the model, so their count never        *)
(* exceeds the number of calls made for the batch, which never exceeds     *)
(* ORDER_MAX_BOXES; hence a sample with more than ORDER_MAX_BOXES boxes    *)
(* ends in the mismatch failure of the prediction and box counts and never *)
(* gets an OrderResult.                                                    *)
(***************************************************************************)
C19_PredictionsWithinCalls ==
    /\ pc \in {"decode", "assemble"} =>
          /\ Invocations <= ORDER_MAX_BOXES
          /\ \A k \in 1 .. Len(batch_predictions) :
                Len(batch_predictions[k]) <= Invocations
    /\ \A s \in 0 .. Len(bboxes) - 1 :
          Oversized(s) => Len(output_order) <= s /\ pc # "returned"

C19_OneEntryPerCall ==
    pc = "decode" /\ pc' \in {"decode", "assemble"} =>
        \A k \in 1 .. Len(batch_predictions) :
            /\ Len(batch_predictions'[k]) >= Len(batch_predictions[k])
            /\ Len(batch_predictions'[k]) <= Len(batch_predictions[k]) + 1
            /\ Len(batch_predictions'[k]) > Len(batch_predictions[k])
                   => oracle' # oracle

C19_OversizedFails ==
    pc = "assemble" /\ j < Len(batch_predictions) /\ Oversized(i + j) =>
        pc' = "failed" /\ err' = "Mismatch between logits and bboxes."

NoHeaderFooter(row_label) ==
    \A q \in 1 .. Len(row_label) :
        row_label[q] \notin {"Page-header", "Page-footer"}

\* the ranks that lines 113-127 make of ranks, in submitted order
Reordered(row_bboxes, row_label, ranks) ==
    LET rows == ReorderRows(row_bboxes, row_label, ranks)
    IN  [q \in 1 .. Len(rows) |-> rows[q][4]]

(***************************************************************************)
(* C20: the reordering is the identity on ranks when nothing needs moving: *)
(* with labels given and no box of the sample labelled "Page-header" or    *)
(* "Page-footer", the final ranks are the raw ranks; and in general the    *)
(* reordering applied again to its own final ranks, with the same labels,  *)
(* returns them unchanged.                                                 *)
(***************************************************************************)
C20_ReorderIdentityIdempotent ==
    labels.given =>
        \A k \in Assembled :
            LET raw == rank_elements(batch_predictions[k])
                final == Positions(output_order[i + k])
                row_label == labels.rows[i + k]
            IN  /\ NoHeaderFooter(row_label) => final = raw
                /\ Reordered(bboxes[i + k], row_label, final) = final

\* three boxes without header or footer, ranked 2, 0, 1 by the model
C20_Witness ==
    /\ labels.given
    /\ pc = "assemble"
    /\ j = 1
    /\ Len(bboxes[i + 1]) = 3
    /\ NoHeaderFooter(labels.rows[i + 1])
    /\ batch_predictions[1] = <<2, 0, 1>>
    /\ Positions(output_order[i + 1]) = <<2, 0, 1>>

====
